---- MODULE Spec2Model ----
(***************************************************************************)
(* State-machine model of selfdrive/car/mazda/carcontroller.py:            *)
(* CarController.__init__ and CarController.update (one step per 100 Hz    *)
(* control cycle).                                                         *)
(*                                                                         *)
(* Units.  Time is counted in control cycles (DT_CTRL = 10 ms), so the     *)
(* timers of 6.0 s, 0.5 s, 0.5 s and 0.07 s last 600, 50, 50 and 7 cycles. *)
(* CC.actuators.accel is carried in tenths of m/s^2, the steer fraction as *)
(* a numerator over SteerDen, filter coefficients in thousandths.          *)
(***************************************************************************)
EXTENDS Integers, Sequences, FiniteSets

VARIABLES
  CP,                   \* self.CP.flags: [gen1, ti, radar]
  apply_steer_last,     \* self.apply_steer_last
  ti_apply_steer_last,  \* self.ti_apply_steer_last
  brake_counter,        \* self.brake_counter
  frame,                \* self.frame
  Timer_frame,          \* number of Timer.tick() calls (class-level)
  hold_timer,           \* self.hold_timer, elapsed cycles
  hold_delay,           \* self.hold_delay, elapsed cycles
  resume_timer,         \* self.resume_timer, elapsed cycles
  cancel_delay,         \* self.cancel_delay, elapsed cycles
  acc_filter,           \* self.acc_filter: [alpha, x, initialized]
  filtered_acc_last,    \* self.filtered_acc_last
  CEFramesCounter,      \* params_memory "CEFramesCounter"
  inp,                  \* CC, CS and params read by the latest update
  out,                  \* locals of the latest update (hold, resume, ...)
  can_sends,            \* can_sends returned by the latest update
  new_actuators,        \* new_actuators returned by the latest update
  hist                  \* observation history used to state the properties

vars == <<CP, apply_steer_last, ti_apply_steer_last, brake_counter, frame,
          Timer_frame, hold_timer, hold_delay, resume_timer, cancel_delay,
          acc_filter, filtered_acc_last, CEFramesCounter, inp, out,
          can_sends, new_actuators, hist>>

----------------------------------------------------------------------------
(* Bounds of the model *)

\* cycles explored by the general specifications
MaxFrame == 112
\* cycles explored by the long stop-and-go scenario (beyond the 6 s hold)
MaxFrameLong == 606
\* cycles explored by the Gen-A button and the blending specifications
MaxFrameShort == 44
\* cycles explored by the specification of every branch
MaxFrameAll == 56
\* cycles explored by the acceleration specification
MaxFrameAccel == 6
\* cycles explored by the hand-back specification, and those of them during
\* which the stock-active flag is free
MaxFrameRamp == 46
MaxRampLead == 24
\* cycles explored by the shared-counter specification
MaxFrameShared == 5
\* cycles explored by the steering specification
MaxFrameSteer == 8
\* in the scenarios, the vehicle may still be moving / the cancel window may
\* still begin only during the first MaxLead cycles
MaxLead == 12
\* CarControllerParams (values.py): steering maximum and rate, scaled down
STEER_MAX == 3
STEER_DELTA == 1
TI_STEER_MAX == 4
TI_STEER_DELTA == 2
\* magnitude left on the side the driver pushes against
DRIVER_STEER_MAX == 1
\* denominator of the steer fraction CC.actuators.steer
SteerDen == 2

(* Program constants *)
HoldDuration == 600
HoldDelayDuration == 50
ResumeDuration == 50
CancelDelayDuration == 7
CancelPeriod == 10
ResumePeriod == 5
AlertPeriod == 50
RadarPeriod == 2
AccPeriod == 2
BrakeDebounce == 7
CounterMax == 20
CancelWindow == 10 * CancelPeriod

----------------------------------------------------------------------------
(* Arithmetic helpers *)

Abs(x) == IF x < 0 THEN -x ELSE x
Min(a, b) == IF a < b THEN a ELSE b
Max(a, b) == IF a > b THEN a ELSE b

\* int(x) of Python: truncation toward zero of n/d, d > 0
TruncDiv(n, d) == IF n >= 0 THEN n \div d ELSE -((-n) \div d)

\* int(round(n/d)) of Python 3: round half to even, d > 0
RoundHalfEven(n, d) ==
  LET q == n \div d
      r == n - q * d
  IN  IF 2 * r < d THEN q
      ELSE IF 2 * r > d THEN q + 1
      ELSE IF q % 2 = 0 THEN q ELSE q + 1

----------------------------------------------------------------------------
(* ControlsTimer (common/realtime.py) *)

\* Timer.reset()
TimerReset == 0
\* Timer.active(): elapsed < duration
TimerActive(elapsed, duration) == elapsed < duration
\* effect of the global Timer.tick() on one timer; the elapsed count stops
\* at the duration, beyond which active() no longer changes
TimerTick(elapsed, duration) == IF elapsed < duration THEN elapsed + 1 ELSE elapsed
\* Timer.interval(n): true every n-th tick
TimerInterval(n) == Timer_frame % n = 0

(* FirstOrderFilter (common/filter_simple.py) *)

\* update_alpha: the coefficient, in thousandths, kept within (0, 1]
FilterUpdateAlpha(f, a) == [f EXCEPT !.alpha = Max(1, Min(1000, a))]
\* update: the first input initialises the filter, later ones are smoothed
FilterUpdate(f, x) ==
  IF f.initialized
    THEN [f EXCEPT !.x = TruncDiv(f.alpha * x + (1000 - f.alpha) * f.x, 1000)]
    ELSE [f EXCEPT !.x = x, !.initialized = TRUE]

(* apply_driver_steer_torque_limits / apply_ti_steer_torque_limits         *)
(* (selfdrive/car/__init__.py): the request is clipped to the magnitude    *)
(* allowed under the measured driver torque (reduced to DRIVER_STEER_MAX   *)
(* on the side the driver opposes), then to the rate limit around the      *)
(* previous value.                                                         *)
Clip(x, lo, hi) == Max(lo, Min(x, hi))
SteerLimits(new_steer, last, torque, max, delta) ==
  LET hi == IF torque < 0 THEN Min(DRIVER_STEER_MAX, max) ELSE max
      lo == IF torque > 0 THEN -Min(DRIVER_STEER_MAX, max) ELSE -max
  IN  Clip(Clip(new_steer, lo, hi), last - delta, last + delta)

----------------------------------------------------------------------------
(* Inputs of one cycle: CC (CarControl), CS (CarState) and the params read *)
(* writeA, writeB, writeC: what another process puts into CEFramesCounter  *)
(* during the cycle, <<>> for no put and <<v>> for a put of v: writeA      *)
(* lands between the get of line 116 and the get of line 123, writeB       *)
(* between the get of line 123 and the put of line 128 or 135, writeC      *)
(* after that put and before the next cycle's get                          *)

Quiet ==
  [latActive |-> FALSE, steer |-> 0, steeringTorque |-> 0,
   ti_lkas_allowed |-> FALSE,
   cancel |-> FALSE, resume |-> FALSE, override |-> FALSE,
   gasPressed |-> FALSE, starting |-> FALSE, accRESUME |-> FALSE,
   standstill |-> FALSE, brakePressed |-> FALSE,
   longActive |-> FALSE, accel |-> 0, stockAccel |-> 2000,
   BlendedACC |-> FALSE, CEStatus |-> 0, ExperimentalLong |-> FALSE,
   ldw |-> FALSE, steerRequired |-> FALSE, lkas_allowed_speed |-> FALSE,
   writeA |-> <<>>, writeB |-> <<>>, writeC |-> <<>>]

\* locals of update before the first cycle
NoOut ==
  [tick50 |-> FALSE, hold |-> FALSE, resume |-> FALSE, moving_reset |-> FALSE,
   apply_steer |-> 0, ti_apply_steer |-> 0,
   raw_acc_output |-> 0, acc_output |-> 0,
   ramp_up |-> FALSE, ramp_down |-> FALSE, alpha_arg |-> 0,
   accel_cmd |-> 2000, counter_read |-> <<>>, counter_put |-> <<>>,
   resume_reset |-> FALSE]

\* observation history before the first cycle
NoHist ==
  [prev_apply_steer |-> 0,
   prev_counter |-> 0, prev_alpha_arg |-> 0, prev_ramp_up |-> FALSE,
   sinceMoving |-> 0, lastHold |-> FALSE, fell |-> FALSE,
   cancelAge |-> -1, cancelGap |-> -1, resumeAge |-> -1, resumeGap |-> -1,
   winLen |-> 0, winStart |-> 0, winIdx |-> {},
   inactiveRun |-> 0, resumeSet |-> <<>>, cancelRun |-> 0]

----------------------------------------------------------------------------
(* The pieces of CarController.update *)

\* is_resuming()
is_resuming(i) ==
  i.resume \/ i.override \/ i.gasPressed \/ i.starting \/ i.accRESUME

\* variant: rate-limits around the interceptor's previous value
ApplySteer_WrongLast(i) ==
  IF i.latActive
    THEN SteerLimits(RoundHalfEven(i.steer * STEER_MAX, SteerDen),
                     ti_apply_steer_last, i.steeringTorque, STEER_MAX, STEER_DELTA)
    ELSE 0

\* variant: keeps the previous value while lateral control is inactive
ApplySteer_KeepLast(i) ==
  IF i.latActive
    THEN SteerLimits(RoundHalfEven(i.steer * STEER_MAX, SteerDen),
                     apply_steer_last, i.steeringTorque, STEER_MAX, STEER_DELTA)
    ELSE apply_steer_last

\* apply_steer
ApplySteer(i) ==
  IF i.latActive
    THEN SteerLimits(RoundHalfEven(i.steer * STEER_MAX, SteerDen),
                     apply_steer_last, i.steeringTorque, STEER_MAX, STEER_DELTA)
    ELSE 0

\* ti_apply_steer
TiApplySteer(i) ==
  IF i.latActive /\ CP.ti /\ i.ti_lkas_allowed
    THEN SteerLimits(RoundHalfEven(i.steer * TI_STEER_MAX, SteerDen),
                     ti_apply_steer_last, i.steeringTorque,
                     TI_STEER_MAX, TI_STEER_DELTA)
    ELSE 0

\* variant: the count kept over a cycle without the cancel intent
BrakeCounterNext_NoReset(i) == IF i.cancel THEN brake_counter + 1 ELSE brake_counter
\* Gen-A: brake_counter after the cycle
BrakeCounterNext(i) == IF i.cancel THEN brake_counter + 1 ELSE 0

\* variant: the cancel button frame at the resume button's rate
CancelSend_Every5(i, bc) ==
  /\ i.cancel
  /\ frame % ResumePeriod = 0
  /\ ~(i.brakePressed /\ bc < BrakeDebounce)

\* variant: the debounce applied whether or not the brake is pressed
CancelSend_AlwaysDebounced(i, bc) ==
  /\ i.cancel
  /\ frame % CancelPeriod = 0
  /\ ~(bc < BrakeDebounce)

\* Gen-A: whether the cancel button frame is sent (bc: the incremented count)
CancelSend(i, bc) ==
  /\ i.cancel
  /\ frame % CancelPeriod = 0
  /\ ~(i.brakePressed /\ bc < BrakeDebounce)

\* variant: the resume button frame outside the else branch
ResumeSend_NoElse(i) ==
  /\ i.resume
  /\ frame % ResumePeriod = 0

\* Gen-A: whether the resume button frame is sent
ResumeSend(i) ==
  /\ ~i.cancel
  /\ i.resume
  /\ frame % ResumePeriod = 0

\* variant: the stock command copied whatever the counter is
RawAccOutput_AnyCounter(i) ==
  IF is_resuming(i) /\ i.BlendedACC
    THEN i.stockAccel
    ELSE i.accel * 24 + 2000

\* Gen-B: raw_acc_output
RawAccOutput(i) ==
  IF is_resuming(i) /\ i.BlendedACC /\ CEFramesCounter = 0
    THEN i.stockAccel
    ELSE i.accel * 24 + 2000

\* variant: the write-back whenever long control is active
AccelCmdField_NoFlag(i, acc_output) ==
  IF i.longActive THEN acc_output ELSE i.stockAccel
\* Gen-B: CS.acc["ACCEL_CMD"] as handed to the ACC frame
AccelCmdField(i, acc_output) ==
  IF i.ExperimentalLong /\ i.longActive THEN acc_output ELSE i.stockAccel

\* variant: the increment without its upper limit
CounterUp_NoClamp(c) == c + 1
\* Gen-B: value written to CEFramesCounter while stock control is active
CounterUp(c) == IF c < CounterMax THEN c + 1 ELSE CounterMax
\* Gen-B: value written to CEFramesCounter while stock control is inactive
CounterDown(c) == IF c > 0 THEN c - 1 ELSE 0

\* the stored CEFramesCounter after the puts ws of another process, in order
Stored(c, ws) == IF ws = <<>> THEN c ELSE ws[Len(ws)]

\* variant: the change applied to a second get of the counter
CounterPut_FreshGet(i, c) ==
  LET fresh == Stored(c, i.writeB)
  IN  IF i.CEStatus # 0
        THEN (IF c < CounterMax THEN fresh + 1 ELSE CounterMax)
        ELSE (IF c > 0 THEN fresh - 1 ELSE 0)
\* Gen-B: the value of put_int("CEFramesCounter", ...), from the local c
CounterPut(i, c) ==
  IF i.CEStatus # 0 THEN CounterUp(c) ELSE CounterDown(c)
\* variant: the ramp of the inactive branch used in the active branch
AlphaUp_Rising(c) == c * 2 + 10
\* Gen-B: argument of update_alpha while stock control is active, thousandths
AlphaUp(c) == (CounterMax - c) * 2 + 10
\* Gen-B: argument of update_alpha while stock control is inactive
AlphaDown(c) == c * 2 + 10

\* variant: hold that does not lapse
HoldValue_NoLapse(i) ==
  /\ i.standstill
  /\ ~TimerActive(hold_delay, HoldDelayDuration)
  /\ ~is_resuming(i)

\* variant: hold without waiting for the hold delay
HoldValue_NoDelay(i) ==
  /\ i.standstill
  /\ ~is_resuming(i)
  /\ TimerActive(hold_timer, HoldDuration)

\* Gen-B, 50 Hz tick: the value of hold
HoldValue(i) ==
  /\ i.standstill
  /\ ~TimerActive(hold_delay, HoldDelayDuration)
  /\ ~is_resuming(i)
  /\ TimerActive(hold_timer, HoldDuration)

\* variant: the resume decision taken during the hold delay too
ResumeReset_NoDelay(i) ==
  /\ i.standstill
  /\ is_resuming(i)

\* Gen-B, 50 Hz tick: whether resume_timer is reset
ResumeReset(i) ==
  /\ i.standstill
  /\ ~TimerActive(hold_delay, HoldDelayDuration)
  /\ is_resuming(i)

\* variant: the timers are never reset
MovingReset_Never(i) == FALSE
\* Gen-B, 50 Hz tick: whether hold_timer and hold_delay are reset
MovingReset(i) == ~i.standstill

\* variant: the global tick is missing
GlobalTick_Missing(elapsed, duration) == elapsed
\* end of the cycle: what the one Timer.tick() call does to a timer
GlobalTick(elapsed, duration) == TimerTick(elapsed, duration)

----------------------------------------------------------------------------
(* Frames of can_sends *)

ButtonFrame(b) == [type |-> "button", button |-> b]
AlertFrame(i) ==
  [type |-> "alert", ldw |-> i.ldw,
   steer_required |-> (i.steerRequired /\ i.lkas_allowed_speed)]
RadarFrame(i, h, cmd) ==
  [type |-> "radar", frame |-> frame, longActive |-> i.longActive,
   hold |-> h, accel_cmd |-> cmd]
AccFrame(h, r, cmd) ==
  [type |-> "acc", hold |-> h, resume |-> r, accel_cmd |-> cmd]
SteerFrame(a) == [type |-> "steer", frame |-> frame, apply_steer |-> a]

\* variant: the ACC frame built outside the 50 Hz block
AccSends_EveryCycle(tick, h, r, cmd) == <<AccFrame(h, r, cmd)>>
\* Gen-B: create_acc_cmd is the last statement of the Timer.interval(2) block
AccSends(tick, h, r, cmd) == IF tick THEN <<AccFrame(h, r, cmd)>> ELSE <<>>

\* variant: the steering frame ahead of the cycle's other frames
WithSteering_First(sends, a) == <<SteerFrame(a)>> \o sends
\* send steering command: the steering frame is appended to can_sends
WithSteering(sends, a) == sends \o <<SteerFrame(a)>>

Sent(t) == {k \in 1..Len(can_sends) : can_sends[k].type = t}
SentButton(b) ==
  \E k \in Sent("button") : can_sends[k].button = b

----------------------------------------------------------------------------
(* CarController.__init__ *)

InitWith(flags) ==
  /\ CP = flags
  /\ apply_steer_last = 0
  /\ ti_apply_steer_last = 0
  /\ brake_counter = 0
  /\ frame = 0
  /\ Timer_frame = 0
  /\ hold_timer = TimerReset
  /\ hold_delay = TimerReset
  /\ resume_timer = TimerReset
  /\ cancel_delay = TimerReset
  /\ acc_filter = [alpha |-> 100, x |-> 0, initialized |-> FALSE]
  /\ filtered_acc_last = 0
  /\ CEFramesCounter = 0
  /\ inp = Quiet
  /\ out = NoOut
  /\ can_sends = <<>>
  /\ new_actuators = [steer |-> <<0, STEER_MAX>>, steerOutputCan |-> 0]
  /\ hist = NoHist

----------------------------------------------------------------------------
(* CarController.update(CC, CS, now_nanos, frogpilot_toggles)              *)
(* i: the inputs of the cycle; a, t: apply_steer and ti_apply_steer        *)

\* Gen-A with the radar interceptor: the acceleration filter, lines 92-108
\* <<acc_filter', filtered_acc_last', CS.crz_info["ACCEL_CMD"]>>
RadarAccel(i) ==
  LET raw == Max(-1000, Min(i.accel * 115, 1000))
      src == IF i.CEStatus # 0 THEN raw ELSE i.stockAccel
      f1  == FilterUpdateAlpha(acc_filter, Abs(src - filtered_acc_last))
      f2  == FilterUpdate(f1, src)
  IN  IF i.longActive /\ i.BlendedACC
        THEN <<f2, f2.x, f2.x>>
        ELSE <<acc_filter, filtered_acc_last, i.stockAccel>>

\* variant: the stock command filtered at counter 0 too
BlendAccel_NoBypass(i, raw) ==
  LET c    == Stored(CEFramesCounter, i.writeA)
      up   == FilterUpdate(FilterUpdateAlpha(acc_filter, AlphaUp(c)), raw)
      dn   == FilterUpdate(FilterUpdateAlpha(acc_filter, AlphaDown(c)), i.stockAccel)
      left == Stored(CEFramesCounter, i.writeA \o i.writeB \o i.writeC)
      put  == CounterPut(i, c)
  IN  IF ~i.BlendedACC
        THEN <<acc_filter, filtered_acc_last, left, raw, 0, <<>>, <<>> >>
      ELSE IF i.CEStatus # 0
        THEN <<up, up.x, Stored(put, i.writeC), up.x, AlphaUp(c), <<c>>, <<put>> >>
      ELSE <<dn, dn.x, Stored(put, i.writeC), dn.x, AlphaDown(c), <<c>>, <<put>> >>

\* Gen-B: the blended acceleration, lines 122-143
\* <<acc_filter', filtered_acc_last', CEFramesCounter', acc_output, alpha_arg,
\*   the counter as read at line 123, the counter as put at line 128 or 135>>
BlendAccel(i, raw) ==
  LET c    == Stored(CEFramesCounter, i.writeA)
      up   == FilterUpdate(FilterUpdateAlpha(acc_filter, AlphaUp(c)), raw)
      dn   == FilterUpdate(FilterUpdateAlpha(acc_filter, AlphaDown(c)), i.stockAccel)
      left == Stored(CEFramesCounter, i.writeA \o i.writeB \o i.writeC)
      put  == CounterPut(i, c)
  IN  IF ~i.BlendedACC
        THEN <<acc_filter, filtered_acc_last, left, raw, 0, <<>>, <<>> >>
      ELSE IF i.CEStatus # 0
        THEN <<up, up.x, Stored(put, i.writeC), up.x, AlphaUp(c), <<c>>, <<put>> >>
      ELSE IF c > 0
        THEN <<dn, dn.x, Stored(put, i.writeC), dn.x, AlphaDown(c), <<c>>, <<put>> >>
      ELSE <<acc_filter, i.stockAccel, left, i.stockAccel, 0, <<c>>, <<>> >>

\* the observation history after the cycle
HistNext(i, o, sentCancel, sentResume) ==
  LET inWin   == CP.gen1 /\ i.cancel /\ ~i.brakePressed
      wl      == IF inWin THEN hist.winLen + 1 ELSE 0
      ws      == IF inWin /\ hist.winLen = 0 THEN frame ELSE hist.winStart
      wi      == IF ~inWin THEN {}
                 ELSE (IF hist.winLen = 0 THEN {} ELSE hist.winIdx)
                      \cup (IF sentCancel /\ wl <= CancelWindow
                              THEN {frame - ws} ELSE {})
      age(x)  == IF x < 0 THEN x ELSE Min(x + 1, CancelPeriod)
      fallNow == inp.standstill /\ ~i.standstill /\ hist.lastHold
  IN  [prev_apply_steer |-> apply_steer_last,
       prev_counter |-> CEFramesCounter,
       prev_alpha_arg |-> out.alpha_arg,
       prev_ramp_up |-> out.ramp_up,
       sinceMoving |-> (IF o.moving_reset THEN 0 ELSE hist.sinceMoving) + 1,
       lastHold |-> IF o.tick50 THEN o.hold ELSE hist.lastHold,
       fell |-> (IF out.tick50 THEN FALSE ELSE hist.fell) \/ fallNow,
       cancelAge |-> IF sentCancel THEN 0 ELSE age(hist.cancelAge),
       cancelGap |-> IF sentCancel THEN age(hist.cancelAge) ELSE hist.cancelGap,
       resumeAge |-> IF sentResume THEN 0 ELSE age(hist.resumeAge),
       resumeGap |-> IF sentResume THEN age(hist.resumeAge) ELSE hist.resumeGap,
       winLen |-> wl, winStart |-> ws, winIdx |-> wi,
       inactiveRun |-> IF ~CP.gen1 /\ i.BlendedACC /\ i.CEStatus = 0
                         THEN Min(hist.inactiveRun + 1, CounterMax + 1) ELSE 0,
       resumeSet |-> IF o.resume_reset THEN <<0>>
                     ELSE IF hist.resumeSet = <<>> THEN <<>>
                     ELSE <<Min(hist.resumeSet[1] + 1, ResumeDuration)>>,
       cancelRun |-> IF CP.gen1 /\ i.cancel THEN hist.cancelRun + 1 ELSE 0]

\* the GEN1 branch, lines 59-111
UpdateGen1(i, a, t) ==
  LET bc         == BrakeCounterNext(i)
      sentCancel == CancelSend(i, bc)
      sentResume == ResumeSend(i)
      buttons    == (IF sentCancel THEN <<ButtonFrame("CANCEL")>> ELSE <<>>)
                    \o (IF sentResume THEN <<ButtonFrame("RESUME")>> ELSE <<>>)
      alert      == IF frame % AlertPeriod = 0 THEN <<AlertFrame(i)>> ELSE <<>>
      hold       == CP.radar /\ i.standstill /\ TimerActive(hold_timer, HoldDuration)
      ht         == IF CP.radar /\ ~i.standstill THEN TimerReset ELSE hold_timer
      acc        == IF CP.radar THEN RadarAccel(i)
                    ELSE <<acc_filter, filtered_acc_last, i.stockAccel>>
      radar      == IF CP.radar /\ frame % RadarPeriod = 0
                      THEN <<RadarFrame(i, hold, acc[3])>> ELSE <<>>
      o          == [tick50 |-> FALSE, hold |-> hold, resume |-> FALSE,
                     moving_reset |-> FALSE,
                     apply_steer |-> a, ti_apply_steer |-> t,
                     raw_acc_output |-> 0, acc_output |-> 0,
                     ramp_up |-> FALSE, ramp_down |-> FALSE, alpha_arg |-> 0,
                     accel_cmd |-> acc[3],
                     counter_read |-> <<>>, counter_put |-> <<>>,
                     resume_reset |-> FALSE]
  IN  /\ brake_counter' = bc
      /\ hold_timer' = GlobalTick(ht, HoldDuration)
      /\ hold_delay' = GlobalTick(hold_delay, HoldDelayDuration)
      /\ resume_timer' = GlobalTick(resume_timer, ResumeDuration)
      /\ acc_filter' = acc[1]
      /\ filtered_acc_last' = acc[2]
      /\ UNCHANGED CEFramesCounter
      /\ out' = o
      /\ can_sends' = WithSteering(buttons \o alert \o radar, a)
      /\ hist' = HistNext(i, o, sentCancel, sentResume)

\* the GEN2 branch, lines 113-179
UpdateGen2(i, a, t) ==
  LET raw   == RawAccOutput(i)
      acc   == BlendAccel(i, raw)
      cmd   == AccelCmdField(i, acc[4])
      tick  == TimerInterval(AccPeriod)
      rst   == tick /\ MovingReset(i)
      hold  == tick /\ HoldValue(i)
      rt    == IF tick /\ ResumeReset(i) THEN TimerReset ELSE resume_timer
      res   == tick /\ TimerActive(rt, ResumeDuration)
      ht    == IF rst THEN TimerReset ELSE hold_timer
      hd    == IF rst THEN TimerReset ELSE hold_delay
      accf  == AccSends(tick, hold, res, cmd)
      o     == [tick50 |-> tick, hold |-> hold, resume |-> res,
                moving_reset |-> rst,
                apply_steer |-> a, ti_apply_steer |-> t,
                raw_acc_output |-> raw, acc_output |-> acc[4],
                ramp_up |-> (i.BlendedACC /\ i.CEStatus # 0),
                ramp_down |-> (i.BlendedACC /\ i.CEStatus = 0 /\ acc[7] # <<>>),
                alpha_arg |-> acc[5],
                accel_cmd |-> cmd,
                counter_read |-> acc[6], counter_put |-> acc[7],
                resume_reset |-> (tick /\ ResumeReset(i))]
  IN  /\ UNCHANGED brake_counter
      /\ hold_timer' = GlobalTick(ht, HoldDuration)
      /\ hold_delay' = GlobalTick(hd, HoldDelayDuration)
      /\ resume_timer' = GlobalTick(rt, ResumeDuration)
      /\ acc_filter' = acc[1]
      /\ filtered_acc_last' = acc[2]
      /\ CEFramesCounter' = acc[3]
      /\ out' = o
      /\ can_sends' = WithSteering(accf, a)
      /\ hist' = HistNext(i, o, FALSE, FALSE)

\* one control cycle
update(i) ==
  LET a == ApplySteer(i)
      t == TiApplySteer(i)
  IN
    /\ apply_steer_last' = a
    /\ ti_apply_steer_last' = t
    /\ IF CP.gen1 THEN UpdateGen1(i, a, t) ELSE UpdateGen2(i, a, t)
    /\ new_actuators' = [steer |-> <<a, STEER_MAX>>, steerOutputCan |-> a]
    /\ frame' = frame + 1
    /\ Timer_frame' = Timer_frame + 1
    /\ cancel_delay' = GlobalTick(cancel_delay, CancelDelayDuration)
    /\ inp' = i
    /\ UNCHANGED CP

----------------------------------------------------------------------------
(* Specifications: the same update, under different vehicles and inputs    *)

Flags(g, ti, r) == [gen1 |-> g, ti |-> ti, radar |-> r]

\* steering: both generations, with and without the torque interceptor
InitSteer == \E g \in BOOLEAN, ti \in BOOLEAN : InitWith(Flags(g, ti, FALSE))
InputsSteer ==
  {[Quiet EXCEPT !.latActive = l, !.steer = s, !.steeringTorque = d,
                 !.ti_lkas_allowed = k] :
     l \in BOOLEAN, s \in {-SteerDen, -1, 0, 1, SteerDen},
     d \in {-1, 0, 1}, k \in BOOLEAN}
NextSteer == frame < MaxFrameSteer /\ \E i \in InputsSteer : update(i)
SpecSteer == InitSteer /\ [][NextSteer]_vars

\* Gen-A buttons: cancel, resume and brake free on every cycle
InitGenA == InitWith(Flags(TRUE, FALSE, FALSE))
InputsGenA ==
  {[Quiet EXCEPT !.cancel = c, !.resume = r, !.brakePressed = b] :
     c \in BOOLEAN, r \in BOOLEAN, b \in BOOLEAN}
NextGenA == frame < MaxFrameShort /\ \E i \in InputsGenA : update(i)
SpecGenA == InitGenA /\ [][NextGenA]_vars

\* Gen-A cancel window: a run of cancel with the brake released, beginning
\* within the first MaxLead cycles and lasting from then on
WindowEnv(i) ==
  LET inWin == i.cancel /\ ~i.brakePressed
  IN  /\ hist.winLen > 0 => inWin
      /\ (hist.winLen = 0 /\ frame > MaxLead) => ~inWin
NextCancel ==
  frame < MaxFrame /\ \E i \in InputsGenA : WindowEnv(i) /\ update(i)
SpecCancel == InitGenA /\ [][NextCancel]_vars

\* every branch: both generations, with and without the radar interceptor
InitAll == \E g \in BOOLEAN, r \in BOOLEAN : InitWith(Flags(g, FALSE, g /\ r))
InputsAll ==
  {[Quiet EXCEPT !.standstill = s, !.resume = r, !.latActive = l] :
     s \in BOOLEAN, r \in BOOLEAN, l \in BOOLEAN}
NextAll == frame < MaxFrameAll /\ \E i \in InputsAll : update(i)
SpecAll == InitAll /\ [][NextAll]_vars

\* Gen-B stop and go: standstill and two of the resume conditions free
InitGenB == InitWith(Flags(FALSE, FALSE, FALSE))
InputsGenB ==
  {[Quiet EXCEPT !.standstill = s, !.resume = r, !.gasPressed = g] :
     s \in BOOLEAN, r \in BOOLEAN, g \in BOOLEAN}
NextGenB == frame < MaxFrame /\ \E i \in InputsGenB : update(i)
SpecGenB == InitGenB /\ [][NextGenB]_vars

\* Gen-B long stop: the vehicle may move during the first MaxLead cycles and
\* stands still from then on; the resume condition stays free
NextHold ==
  /\ frame < MaxFrameLong
  /\ \E i \in InputsGenB :
       /\ frame >= MaxLead => i.standstill
       /\ ~i.gasPressed
       /\ update(i)
SpecHold == InitGenB /\ [][NextHold]_vars

\* Gen-B blending: blend mode, stock-active flag, resume and long control free
InputsBlend ==
  {[Quiet EXCEPT !.BlendedACC = b, !.CEStatus = c, !.resume = r,
                 !.longActive = l, !.ExperimentalLong = e] :
     b \in BOOLEAN, c \in {0, 1}, r \in BOOLEAN, l \in BOOLEAN, e \in BOOLEAN}
NextBlend == frame < MaxFrameShort /\ \E i \in InputsBlend : update(i)
SpecBlend == InitGenB /\ [][NextBlend]_vars

\* Gen-B acceleration: the computed and the stock command differ, and blend
\* mode, stock-active flag, resume, long control and its enabling are free
InputsAccel ==
  {[Quiet EXCEPT !.BlendedACC = b, !.CEStatus = c, !.resume = r,
                 !.longActive = l, !.ExperimentalLong = e,
                 !.accel = 5, !.stockAccel = k] :
     b \in BOOLEAN, c \in {0, 1}, r \in BOOLEAN, l \in BOOLEAN, e \in BOOLEAN,
     k \in {2000, 2100}}
NextAccel == frame < MaxFrameAccel /\ \E i \in InputsAccel : update(i)
SpecAccel == InitGenB /\ [][NextAccel]_vars

\* Gen-B hand-back: blend mode stays enabled, the stock-active flag is free
\* during the first MaxRampLead cycles and zero from then on, and the stock
\* command differs from the computed one
InputsRamp ==
  {[Quiet EXCEPT !.BlendedACC = TRUE, !.CEStatus = c, !.accel = 5,
                 !.stockAccel = k] :
     c \in {0, 1}, k \in {2000, 2100}}
NextRamp ==
  /\ frame < MaxFrameRamp
  /\ \E i \in InputsRamp :
       /\ frame >= MaxRampLead => i.CEStatus = 0
       /\ update(i)
SpecRamp == InitGenB /\ [][NextRamp]_vars

\* Gen-B with the counter shared: another process puts the values of
\* OtherPuts into CEFramesCounter at any of the three points of a cycle
OtherPuts == {0, CounterMax}
OtherWrites == {<<>>} \cup {<<v>> : v \in OtherPuts}
InputsShared ==
  {[Quiet EXCEPT !.BlendedACC = TRUE, !.CEStatus = c, !.resume = r,
                 !.writeA = wa, !.writeB = wb, !.writeC = wc] :
     c \in {0, 1}, r \in BOOLEAN,
     wa \in OtherWrites, wb \in OtherWrites, wc \in OtherWrites}
NextShared == frame < MaxFrameShared /\ \E i \in InputsShared : update(i)
SpecShared == InitGenB /\ [][NextShared]_vars

Spec == SpecGenB

----------------------------------------------------------------------------
(* Properties *)

\* the ACC command frame of the latest cycle, if one was sent
AccSent == {can_sends[k] : k \in Sent("acc")}
\* the steering-control frame of the latest cycle
SteerSent == {can_sends[k] : k \in Sent("steer")}
\* cycles between the latest moving tick (or construction) and the latest cycle
StoppedFor == hist.sinceMoving - 1

\* C1: on Gen-B, the hold and resume flags of an ACC command frame are never
\* both true.
C1_HoldResumeExclusive ==
  \A f \in AccSent : ~(f.hold /\ f.resume)

\* C2 as claimed: on every cycle, the deactivation cycle included, the applied
\* steer differs from the previous applied steer by at most the maximum rate
\* and its magnitude is at most the maximum.
C2_RateEveryCycle ==
  /\ Abs(out.apply_steer - hist.prev_apply_steer) <= STEER_DELTA
  /\ Abs(out.apply_steer) <= STEER_MAX

\* C2 amended: the magnitude bound holds on every cycle, the rate bound on
\* every cycle in which latActive is true; on a cycle with latActive false the
\* applied steer is 0 whatever the previous value was.
C2_RateWhileActive ==
  /\ Abs(out.apply_steer) <= STEER_MAX
  /\ Abs(apply_steer_last) <= STEER_MAX
  /\ Abs(ti_apply_steer_last) <= TI_STEER_MAX
  /\ inp.latActive => Abs(out.apply_steer - hist.prev_apply_steer) <= STEER_DELTA
  /\ ~inp.latActive => out.apply_steer = 0
C2_Witness ==
  /\ inp.latActive
  /\ hist.prev_apply_steer = STEER_MAX - STEER_DELTA
  /\ out.apply_steer = STEER_MAX

\* C3: on a cycle with latActive false the steering frame and the actuator
\* echo carry 0 and both remembered values are 0, so the next engagement is
\* rate-limited from 0; the interceptor value is 0 whenever the interceptor
\* flag is absent or ti_lkas_allowed is false.
C3_InactiveIsZero ==
  /\ ~inp.latActive =>
       /\ \A f \in SteerSent : f.apply_steer = 0
       /\ new_actuators.steerOutputCan = 0
       /\ new_actuators.steer[1] = 0
       /\ apply_steer_last = 0
       /\ ti_apply_steer_last = 0
  /\ (inp.latActive /\ hist.prev_apply_steer = 0) =>
       Abs(out.apply_steer) <= STEER_DELTA
  /\ (~CP.ti \/ ~inp.ti_lkas_allowed) => out.ti_apply_steer = 0
C3_Witness ==
  /\ ~inp.latActive
  /\ hist.prev_apply_steer = STEER_MAX
  /\ SteerSent # {}
  /\ apply_steer_last = 0

\* C4: CEFramesCounter stays in [0, 20] and a cycle changes it by at most 1.
C4_CounterBounded ==
  /\ CEFramesCounter \in 0..CounterMax
  /\ Abs(CEFramesCounter - hist.prev_counter) <= 1
C4_Witness ==
  /\ out.ramp_up
  /\ hist.prev_counter = CounterMax
  /\ CEFramesCounter = CounterMax

\* C5: on Gen-A two cancel-button frames are at least 10 cycles apart, and
\* none is sent on a cycle where the brake is pressed and the incremented
\* brake_counter is below 7.
C5_CancelRate ==
  /\ hist.cancelGap = -1 \/ hist.cancelGap >= CancelPeriod
  /\ SentButton("CANCEL") =>
       /\ inp.cancel
       /\ ~(inp.brakePressed /\ brake_counter < BrakeDebounce)
C5_Witness ==
  /\ SentButton("CANCEL")
  /\ inp.brakePressed
  /\ hist.cancelGap = CancelPeriod

\* C6: on Gen-A two resume-button frames are at least 5 cycles apart, one is
\* sent only with the resume intent true and the cancel intent false, and a
\* cycle sends at most one button frame.
C6_ResumeRate ==
  /\ hist.resumeGap = -1 \/ hist.resumeGap >= ResumePeriod
  /\ SentButton("RESUME") => (inp.resume /\ ~inp.cancel)
  /\ Cardinality(Sent("button")) <= 1
C6_Witness ==
  /\ SentButton("RESUME")
  /\ hist.resumeGap = ResumePeriod

\* C7: on Gen-B, on a 50 Hz tick with the vehicle standing still and no
\* resume condition, hold is true exactly when the vehicle has been standing
\* for at least the 0.5 s hold delay and less than 6 s since it last moved;
\* during the hold delay hold is false whatever the resume conditions are.
C7_HoldAfterDelay ==
  /\ (out.tick50 /\ inp.standstill /\ ~is_resuming(inp)) =>
       (out.hold <=> (HoldDelayDuration <= StoppedFor /\ StoppedFor < HoldDuration))
  /\ (out.tick50 /\ inp.standstill /\ StoppedFor < HoldDelayDuration) => ~out.hold
C7_Witness ==
  /\ out.tick50 /\ inp.standstill /\ ~is_resuming(inp)
  /\ StoppedFor = HoldDuration
  /\ ~out.hold
  /\ hist.lastHold = FALSE

\* C8 as claimed: when standstill goes from true to false while hold is
\* asserted, on a tick cycle or on the cycle between two ticks, the next
\* 50 Hz tick sends hold false and has reset hold_timer and hold_delay.
C8_DropSeenOnAnyCycle ==
  (out.tick50 /\ hist.fell) =>
     /\ ~out.hold
     /\ out.moving_reset
     /\ hold_timer = 1
     /\ hold_delay = 1

\* C8 amended: on every 50 Hz tick that reads standstill false, hold is false
\* and hold_timer and hold_delay are reset on that tick; a drop of standstill
\* that a tick reads is therefore answered on that tick.
C8_DropSeenOnTick ==
  (out.tick50 /\ ~inp.standstill) =>
     /\ ~out.hold
     /\ \A f \in AccSent : ~f.hold
     /\ out.moving_reset
     /\ hold_timer = 1
     /\ hold_delay = 1
C8_Witness ==
  /\ out.tick50 /\ ~inp.standstill
  /\ hist.fell
  /\ hold_timer = 1

\* C9: on Gen-B with blend mode on and stock control active, the counter
\* goes up by 1 per cycle to 20 and stays there, the value given to
\* update_alpha is (20 - counter)/500 + 0.01 for the counter read on that
\* cycle, it is strictly smaller than on the previous such cycle while the
\* counter was below 20, and it is 0.01 once the counter read is 20.
C9_RampUp ==
  out.ramp_up =>
    /\ CEFramesCounter = Min(hist.prev_counter + 1, CounterMax)
    /\ out.alpha_arg = (CounterMax - hist.prev_counter) * 2 + 10
    /\ (hist.prev_ramp_up /\ hist.prev_alpha_arg > 10) =>
         out.alpha_arg < hist.prev_alpha_arg
    /\ hist.prev_counter = CounterMax => out.alpha_arg = 10
C9_Witness ==
  /\ out.ramp_up /\ hist.prev_ramp_up
  /\ hist.prev_counter = CounterMax - 1
  /\ CEFramesCounter = CounterMax
  /\ out.alpha_arg = 12

\* the cancel window is complete: 100 cycles of cancel with the brake released
WindowDone == hist.winLen = CancelWindow

\* C10 as claimed: a window of 100 cycles of cancel intent with the brake
\* released has cancel-button frames on exactly its cycles 0, 10, ..., 90.
C10_FramesAtWindowStart ==
  WindowDone => hist.winIdx = {CancelPeriod * k : k \in 0..9}

\* C10 amended: such a window has exactly 10 cancel-button frames, on the
\* cycles whose frame counter is a multiple of 10; they are the window's
\* cycles 0, 10, ..., 90 only when the window begins on such a cycle.
C10_TenFramesOnFrameGrid ==
  WindowDone =>
    LET first == (CancelPeriod - (hist.winStart % CancelPeriod)) % CancelPeriod
    IN  /\ Cardinality(hist.winIdx) = 10
        /\ hist.winIdx = {first + CancelPeriod * k : k \in 0..9}
C10_Witness ==
  /\ WindowDone
  /\ hist.winStart = 3
  /\ Cardinality(hist.winIdx) = 10

\* a timer after one cycle: ticked once, from its old value or from a reset
Ticked(e1, e0, d) == e1 = TimerTick(e0, d) \/ e1 = TimerTick(TimerReset, d)

\* C11: every cycle raises the frame counter by 1 and ticks the global timer
\* once, after the frames of the cycle were built: each of the four timers
\* advances by one tick in every cycle (none is left behind, none alone), the
\* tick count equals the frame counter, and the steering frame of a cycle
\* still carries the frame counter from before the increment.
C11_OneTickPerCycle ==
  /\ [](/\ Timer_frame = frame
        /\ cancel_delay = Min(frame, CancelDelayDuration)
        /\ \A f \in SteerSent : f.frame = frame - 1)
  /\ [][/\ frame' = frame + 1
        /\ Timer_frame' = Timer_frame + 1
        /\ Ticked(hold_timer', hold_timer, HoldDuration)
        /\ Ticked(hold_delay', hold_delay, HoldDelayDuration)
        /\ Ticked(resume_timer', resume_timer, ResumeDuration)
        /\ Ticked(cancel_delay', cancel_delay, CancelDelayDuration)]_vars
C11_Witness ==
  /\ ~CP.gen1
  /\ frame = Timer_frame
  /\ cancel_delay = CancelDelayDuration
  /\ hold_delay = HoldDelayDuration
  /\ hold_timer = HoldDelayDuration + 3
  /\ resume_timer = 1

\* C12: after every cycle, on both generations and whatever latActive is,
\* can_sends holds exactly one steering-control frame, it carries the frame
\* counter of that cycle and the applied steer, and it is the last frame.
C12_SteeringFrameLast ==
  frame > 0 =>
    /\ Len(can_sends) >= 1
    /\ Sent("steer") = {Len(can_sends)}
    /\ can_sends[Len(can_sends)].frame = frame - 1
    /\ can_sends[Len(can_sends)].apply_steer = out.apply_steer
C12_Witness ==
  /\ CP.gen1 /\ CP.radar
  /\ ~inp.latActive
  /\ Len(can_sends) = 4
  /\ Sent("button") = {1} /\ Sent("alert") = {2} /\ Sent("radar") = {3}

\* C13: on a Gen-B 50 Hz tick with standstill true and hold_delay active,
\* hold is false and resume_timer is not reset (it is only ticked), whatever
\* the resume conditions are.
C13_NoDecisionDuringDelay ==
  [][(/\ ~CP.gen1
      /\ TimerInterval(AccPeriod)
      /\ inp'.standstill
      /\ TimerActive(hold_delay, HoldDelayDuration))
     => (/\ ~out'.hold
         /\ \A f \in {can_sends'[k] : k \in 1..Len(can_sends')} :
              f.type = "acc" => ~f.hold
         /\ resume_timer' = TimerTick(resume_timer, ResumeDuration)
         /\ (resume_timer > 0 => resume_timer' # TimerTick(TimerReset, ResumeDuration)))]_vars
C13_Witness ==
  /\ out.tick50 /\ inp.standstill /\ is_resuming(inp)
  /\ StoppedFor = HoldDelayDuration - 2
  /\ hold_delay = HoldDelayDuration - 1
  /\ resume_timer = ResumeDuration
  /\ ~out.hold

\* the computed command of the latest cycle: accelCommand * 240 + 2000
Computed == inp.accel * 24 + 2000

\* C14 as claimed: on Gen-B, whatever the blend-mode flag is, raw_acc_output
\* is the stock command on a cycle with a resume condition and the counter
\* at 0, and accelCommand * 240 + 2000 on every other cycle.
C14_RawCopiesStockAnyBlend ==
  (~CP.gen1 /\ frame > 0) =>
    out.raw_acc_output =
      IF is_resuming(inp) /\ hist.prev_counter = 0
        THEN inp.stockAccel ELSE Computed

\* C14 amended: raw_acc_output is the stock command on a cycle with a resume
\* condition, blend mode enabled and the counter at 0, and
\* accelCommand * 240 + 2000 on every other cycle, those with a resume
\* condition and blend mode disabled included.
C14_RawCopiesStockWhenBlended ==
  (~CP.gen1 /\ frame > 0) =>
    out.raw_acc_output =
      IF is_resuming(inp) /\ inp.BlendedACC /\ hist.prev_counter = 0
        THEN inp.stockAccel ELSE Computed
C14_Witness ==
  /\ ~CP.gen1 /\ frame > 1
  /\ is_resuming(inp) /\ inp.BlendedACC /\ hist.prev_counter = 0
  /\ inp.stockAccel # Computed
  /\ out.raw_acc_output = inp.stockAccel

\* C15: on Gen-B the ACCEL_CMD field handed to the ACC frame is acc_output
\* exactly on the cycles with experimental longitudinal control enabled and
\* longActive true, and the stock value on every other cycle, whatever blend
\* mode, stock-active flag and counter are.
C15_WriteBackOnlyWhenLongActive ==
  (~CP.gen1 /\ frame > 0) =>
    /\ (inp.ExperimentalLong /\ inp.longActive) => out.accel_cmd = out.acc_output
    /\ ~(inp.ExperimentalLong /\ inp.longActive) => out.accel_cmd = inp.stockAccel
    /\ \A f \in AccSent : f.accel_cmd = out.accel_cmd
    /\ out.tick50 => AccSent # {}
C15_Witness ==
  /\ ~CP.gen1
  /\ inp.ExperimentalLong /\ inp.longActive /\ inp.BlendedACC
  /\ hist.prev_counter > 0
  /\ out.acc_output # inp.stockAccel
  /\ \E f \in AccSent : f.accel_cmd = out.acc_output

\* C16: on Gen-B exactly one ACC command frame is sent on each cycle whose
\* index is a multiple of AccPeriod and none on any other cycle, with
\* standstill true or false; its hold and resume are the values that tick
\* computed from the tick's own inputs and the timers as the tick found them.
C16_OneAccFramePerTick ==
  /\ []((~CP.gen1 /\ frame > 0) =>
         /\ Cardinality(Sent("acc")) = (IF (frame - 1) % AccPeriod = 0 THEN 1 ELSE 0)
         /\ \A f \in AccSent : f.hold = out.hold /\ f.resume = out.resume)
  /\ [][~CP.gen1 =>
          \A k \in 1..Len(can_sends') :
            can_sends'[k].type = "acc" =>
              /\ can_sends'[k].hold = HoldValue(inp')
              /\ can_sends'[k].resume =
                   (ResumeReset(inp') \/ TimerActive(resume_timer, ResumeDuration))]_vars
C16_Witness ==
  /\ ~CP.gen1 /\ frame > HoldDelayDuration
  /\ ~inp.standstill
  /\ \E f \in AccSent : ~f.hold /\ ~f.resume

\* C17: with another process putting values of 0..CounterMax into
\* CEFramesCounter between the controller's get of line 116, its get of line
\* 123 and its put, every value the controller puts is in 0..CounterMax and
\* within one of the value it read, and every alpha it derives is in 10..50
\* thousandths and is the alpha the filter then holds.
C17_SharedCounterInRange ==
  /\ CEFramesCounter \in 0..CounterMax
  /\ \A k \in 1..Len(out.counter_put) :
       /\ out.counter_put[k] \in 0..CounterMax
       /\ Abs(out.counter_put[k] - out.counter_read[1]) <= 1
  /\ (out.ramp_up \/ out.ramp_down) =>
       /\ out.alpha_arg \in 10..50
       /\ acc_filter.alpha = out.alpha_arg
C17_Witness ==
  /\ inp.writeA = <<CounterMax>> /\ inp.writeB = <<0>>
  /\ hist.prev_counter = 1
  /\ is_resuming(inp) /\ out.ramp_up
  /\ out.counter_read = <<CounterMax>> /\ out.counter_put = <<CounterMax>>
  /\ out.alpha_arg = 10

\* C18: on Gen-B with blend mode enabled and the stock-active flag zero, a
\* cycle that finds the counter at 0 outputs the stock command and leaves
\* the filter and the counter as they were; a cycle that finds it above 0
\* lowers it by exactly 1; so the counter is 0 from the CounterMax-th
\* consecutive such cycle on.
C18_BypassAndRampDown ==
  /\ [][(~CP.gen1 /\ inp'.BlendedACC /\ inp'.CEStatus = 0) =>
          IF CEFramesCounter = 0
            THEN /\ out'.acc_output = inp'.stockAccel
                 /\ acc_filter' = acc_filter
                 /\ CEFramesCounter' = 0
            ELSE CEFramesCounter' = CEFramesCounter - 1]_vars
  /\ [](CEFramesCounter <= Max(0, CounterMax - hist.inactiveRun))
C18_Witness ==
  /\ hist.inactiveRun = CounterMax + 1
  /\ hist.prev_counter = 0 /\ CEFramesCounter = 0
  /\ acc_filter.initialized /\ acc_filter.x # inp.stockAccel
  /\ out.acc_output = inp.stockAccel

\* C19: on Gen-B hold_timer and hold_delay are reset together and count
\* together, so an ACC frame carries hold only with the vehicle standing
\* still, 0.5 s or more and less than 6.0 s after the latest moving tick;
\* from 6.0 s on no tick asserts hold, with or without a resume condition,
\* until a tick reads standstill false.
C19_HoldLapsesForTheEpisode ==
  /\ [](~CP.gen1 =>
          /\ hold_timer = Min(hist.sinceMoving, HoldDuration)
          /\ hold_delay = Min(hist.sinceMoving, HoldDelayDuration)
          /\ \A f \in AccSent :
               f.hold => /\ inp.standstill
                         /\ HoldDelayDuration <= StoppedFor
                         /\ StoppedFor < HoldDuration)
  /\ [][(~CP.gen1 /\ StoppedFor + 1 >= HoldDuration /\ ~out'.moving_reset) =>
          /\ ~out'.hold
          /\ \A k \in 1..Len(can_sends') :
               can_sends'[k].type = "acc" => ~can_sends'[k].hold]_vars
C19_Witness ==
  /\ out.tick50 /\ inp.standstill /\ ~is_resuming(inp)
  /\ StoppedFor = HoldDuration + AccPeriod
  /\ \E f \in AccSent : ~f.hold

\* C20: on Gen-B an ACC frame carries resume only if the tick that sent it,
\* or a tick less than 0.5 s before it, read standstill true with the hold
\* delay run out and a resume condition; so resume is false on every tick
\* from construction to the first such tick and on every tick 0.5 s or
\* more after the latest one.
C20_ResumeOnlyAfterDecision ==
  \A f \in AccSent :
    f.resume => (hist.resumeSet # <<>> /\ hist.resumeSet[1] < ResumeDuration)

\* the run length by which a cancel-button frame is due: the debounce ends
\* on the run's cycle BrakeDebounce - 1 and the frame grid is at most
\* CancelPeriod - 1 cycles further
CancelDue == BrakeDebounce + CancelPeriod - 1

\* C21: on Gen-A brake_counter is the number of consecutive cycles, the
\* latest included, with the cancel intent (0 after a cycle without it);
\* once such a run is 16 cycles long a cancel-button frame has been sent
\* within it, brake pressed or not, and a pressed brake withholds a frame
\* only on the run's first BrakeDebounce - 1 cycles.
C21_DebounceCountsCancelRun ==
  CP.gen1 =>
    /\ brake_counter = hist.cancelRun
    /\ hist.cancelRun >= CancelDue =>
         (hist.cancelAge >= 0 /\ hist.cancelAge < CancelPeriod)
    /\ (hist.cancelRun >= BrakeDebounce /\ (frame - 1) % CancelPeriod = 0) =>
         SentButton("CANCEL")
C21_Witness ==
  /\ CP.gen1
  /\ hist.cancelRun = CancelDue /\ brake_counter = CancelDue
  /\ inp.brakePressed
  /\ SentButton("CANCEL")
  /\ hist.cancelGap = -1

====
